---------------------------- MODULE Spec2Model ----------------------------
(***************************************************************************)
(* A model of rpmautospec/misc.py: the EVR parser, the command runner and  *)
(* the git / rpm wrappers built on it, the two macro presence checks with  *)
(* their combinator, and the process-wide koji session handle.             *)
(*                                                                         *)
(* Text (str and bytes alike) is a sequence of pieces whose concatenation  *)
(* is the text.  A piece is one character, except that a literal the code  *)
(* never takes apart (a commit hash, the macro name autochangelog, the     *)
(* sentinel) is a single piece.  A command is its argument vector, a       *)
(* sequence of such literals.                                              *)
(* An optional value (Python's None or a value) is a sequence of length    *)
(* zero or one: None is <<>>, the value x is <<x>>.                        *)
(***************************************************************************)
EXTENDS Integers, Sequences, FiniteSets, TLC

(* ------------------------------ bounds -------------------------------- *)

\* longest EVR string given to parse_evr
MaxEvrLen == 4
\* longest spec file (in characters) given to check_autochangelog_presence
MaxFileLen == 5
\* number of sessions koji_init may construct in one run
MaxSessions == 4
\* longest output (in pieces) a child process writes
MaxOutLen == 2

(* ------------------------------ state --------------------------------- *)

VARIABLES
    op,          \* name of the operation called last ("" before any call)
    args,        \* the arguments (and environment answers) of that call
    result,      \* its outcome: [kind |-> "return", value |-> v] or
                 \*              [kind |-> "raise", exc |-> name, ...]
    spawned,     \* the child processes that call spawned, in order
    errlog,      \* the records that call logged at error severity, in order
    kojiclient,  \* the module global _kojiclient (optional session)
    nsessions,   \* how many koji.ClientSession objects were constructed
    head,        \* HEAD of the git repository at RepoPath
    pc           \* position of the driver of the running specification

vars == <<op, args, result, spawned, errlog, kojiclient, nsessions, head,
          pc>>

(* --------------------------- text helpers ----------------------------- *)

None == <<>>

Some(x) == <<x>>

NL == "\n"

Space == " "

\* the byte 0xff, which is not valid UTF-8 anywhere
BadByte == "\\xff"

\* U+FFFD, what decode(errors="replace") puts for an invalid byte
ReplacementChar == "\\ufffd"

Return(v) == [kind |-> "return", value |-> v]

\* all sequences over S of length 0..n
SeqsUpTo(S, n) == UNION {[1..k -> S] : k \in 0..n}

IsWhitespace(c) == c \in {Space, NL, "\t", "\r"}

\* str.lstrip() / str.rstrip() / str.strip()
RECURSIVE lstrip(_)
lstrip(s) ==
    IF s # <<>> /\ IsWhitespace(Head(s)) THEN lstrip(Tail(s)) ELSE s

RECURSIVE rstrip(_)
rstrip(s) ==
    IF s # <<>> /\ IsWhitespace(s[Len(s)])
    THEN rstrip(SubSeq(s, 1, Len(s) - 1))
    ELSE s

strip(s) == rstrip(lstrip(s))

\* line.rstrip("\n"): removes every trailing newline character
RECURSIVE rstrip_newline(_)
rstrip_newline(s) ==
    IF s # <<>> /\ s[Len(s)] = NL
    THEN rstrip_newline(SubSeq(s, 1, Len(s) - 1))
    ELSE s

\* s.split("\n")[0]: the text before the first newline (all of s if none)
RECURSIVE first_line(_)
first_line(s) ==
    IF s = <<>> \/ Head(s) = NL THEN <<>>
    ELSE <<Head(s)>> \o first_line(Tail(s))

\* bytes.decode("UTF-8"): strict, fails on an invalid byte
decode_ok(b) == \A i \in 1..Len(b) : b[i] # BadByte

\* bytes.decode(errors="replace")
decode_replace(b) ==
    [i \in 1..Len(b) |-> IF b[i] = BadByte THEN ReplacementChar ELSE b[i]]

(* ------------------------------ parse_evr ----------------------------- *)

DigitChars == <<"0", "1", "2", "3", "4", "5", "6", "7", "8", "9">>

IsDigit(c) == \E d \in 1..10 : DigitChars[d] = c

DigitValue(c) == (CHOOSE d \in 1..10 : DigitChars[d] = c) - 1

\* int(s) for a string of decimal digits
RECURSIVE int(_)
int(s) ==
    IF s = <<>> THEN 0
    ELSE 10 * int(SubSeq(s, 1, Len(s) - 1)) + DigitValue(s[Len(s)])

\* str(n) for n >= 0
RECURSIVE str(_)
str(n) ==
    IF n < 10 THEN <<DigitChars[n + 1]>>
    ELSE str(n \div 10) \o <<DigitChars[(n % 10) + 1]>>

\* the character class [^-:]
IsVerChar(c) == c \notin {"-", ":"}

\* length of the longest prefix of s whose characters satisfy the class:
\* what a greedy + or * consumes first
RECURSIVE DigitRun(_)
DigitRun(s) ==
    IF s # <<>> /\ IsDigit(Head(s)) THEN 1 + DigitRun(Tail(s)) ELSE 0

RECURSIVE VerRun(_)
VerRun(s) ==
    IF s # <<>> /\ IsVerChar(Head(s)) THEN 1 + VerRun(Tail(s)) ELSE 0

\* Python's $ (no MULTILINE): at the end, or just before a final newline
DollarAt(s, p) == p = Len(s) + 1 \/ (p = Len(s) /\ s[p] = NL)

\* (?P<version>[^-:]+)(?:-(?P<release>[^-:]+))?$ matched at the start of t,
\* as the backtracking matcher finds it: longest version first, the release
\* group before its absence.  <<>> when nothing matches.
evr_tail(t) ==
    LET n == VerRun(t)
        \* v: the length tried for version, longest first
        ReleaseAt(v) ==
            \* lengths r of a release following version t[1..v]
            {r \in 1..(Len(t) - v - 1) :
                /\ t[v + 1] = "-"
                /\ r <= VerRun(SubSeq(t, v + 2, Len(t)))
                /\ DollarAt(t, v + 2 + r)}
        Works(v) ==
            \/ (v < Len(t) /\ t[v + 1] = "-" /\ ReleaseAt(v) # {})
            \/ DollarAt(t, v + 1)
        good == {v \in 1..n : Works(v)}
    IN  IF good = {} THEN None
        ELSE LET v == CHOOSE x \in good : \A y \in good : y <= x
                 rs == IF v < Len(t) /\ t[v + 1] = "-" THEN ReleaseAt(v) ELSE {}
             IN  IF rs # {}
                 THEN LET r == CHOOSE x \in rs : \A y \in rs : y <= x
                      IN  Some([version |-> SubSeq(t, 1, v),
                                release |-> Some(SubSeq(t, v + 2, v + 1 + r))])
                 ELSE Some([version |-> SubSeq(t, 1, v), release |-> None])

\* evr_re.match(s): the groups of the match, or None.  The epoch group
\* (\d+ greedy, then ':') is tried before its absence.
evr_re_match(s) ==
    LET d == DigitRun(s)
        withEpoch ==
            IF d >= 1 /\ d < Len(s) /\ s[d + 1] = ":"
            THEN evr_tail(SubSeq(s, d + 2, Len(s)))
            ELSE None
        without == evr_tail(s)
    IN  IF withEpoch # None
        THEN Some([epoch |-> Some(SubSeq(s, 1, d)),
                   version |-> withEpoch[1].version,
                   release |-> withEpoch[1].release])
        ELSE IF without # None
        THEN Some([epoch |-> None,
                   version |-> without[1].version,
                   release |-> without[1].release])
        ELSE None

\* a plausible slip: a missing release reported as the empty string
parse_evr_empty_release(evr_str) ==
    LET match == evr_re_match(evr_str) IN
    IF match = None
    THEN [kind |-> "raise", exc |-> "ValueError", arg |-> evr_str]
    ELSE Return([epoch |-> IF match[1].epoch = None THEN 0
                           ELSE int(match[1].epoch[1]),
                 version |-> match[1].version,
                 release |-> IF match[1].release = None THEN Some(<<>>)
                             ELSE match[1].release])

parse_evr(evr_str) ==
    LET match == evr_re_match(evr_str) IN
    IF match = None
    THEN [kind |-> "raise", exc |-> "ValueError", arg |-> evr_str]
    ELSE Return([epoch |-> IF match[1].epoch = None THEN 0
                           ELSE int(match[1].epoch[1]),
                 version |-> match[1].version,
                 release |-> match[1].release])

(* --------------------------- child processes -------------------------- *)

\* What a child process does, as the environment decides it: it cannot be
\* started at all (the executable is missing), or it runs and exits.
Exited(code, out, err) ==
    [kind |-> "exit", code |-> code, stdout |-> out, stderr |-> err]

NotStarted == [kind |-> "oserror"]

Spawn(cmd, cwd) == [cmd |-> cmd, cwd |-> cwd]

CalledProcessError(cmd, proc) ==
    [kind |-> "raise", exc |-> "CalledProcessError", cmd |-> cmd,
     returncode |-> proc.code, stdout |-> proc.stdout, stderr |-> proc.stderr]

Raise(name) == [kind |-> "raise", exc |-> name]

\* subprocess.check_output(cmd, cwd=cwd, stderr=PIPE) when the child does proc
check_output(cmd, cwd, proc) ==
    IF proc.kind = "oserror" THEN Raise("FileNotFoundError")
    ELSE IF proc.code # 0 THEN CalledProcessError(cmd, proc)
    ELSE Return(proc.stdout)

\* one argument of a command, given as a literal
A(literal) == <<literal>>

\* " ".join(command)
RECURSIVE join(_)
join(command) ==
    IF command = <<>> THEN <<>>
    ELSE IF Len(command) = 1 THEN Head(command)
    ELSE Head(command) \o <<Space>> \o join(Tail(command))

\* the three _log.error calls of run_command
ErrorRecords(command, e) ==
    << [level |-> "ERROR", what |-> "command",
        cmdline |-> join(command), returncode |-> e.returncode],
       [level |-> "ERROR", what |-> "stdout", text |-> e.stdout],
       [level |-> "ERROR", what |-> "stderr", text |-> e.stderr] >>

\* a plausible slip: the command is run a second time before giving up
run_command_retry(command, cwd, proc) ==
    LET r == check_output(command, cwd, proc) IN
    IF r.kind = "raise" /\ r.exc = "CalledProcessError"
    THEN [result |-> r,
          spawned |-> <<Spawn(command, cwd), Spawn(command, cwd)>>,
          errlog |-> ErrorRecords(command, r)]
    ELSE [result |-> r, spawned |-> <<Spawn(command, cwd)>>, errlog |-> <<>>]

\* run_command: what it returns or raises, what it spawned, what it logged
run_command(command, cwd, proc) ==
    LET r == check_output(command, cwd, proc) IN
    IF r.kind = "raise" /\ r.exc = "CalledProcessError"
    THEN [result |-> r,
          spawned |-> <<Spawn(command, cwd)>>,
          errlog |-> ErrorRecords(command, r)]
    ELSE [result |-> r, spawned |-> <<Spawn(command, cwd)>>, errlog |-> <<>>]

(* ------------------------------ git ----------------------------------- *)

RepoPath == "repo"

PlainPath == "notrepo"

\* the commits of the repository at RepoPath, by their full hashes
Commit1 == "1e86efac2723289c896165bae2e863cb66466376"

Commit2 == "7c3b1d5a9e0f4826b1c2d3e4f5a6b7c8d9e0f1a2"

Commits == {Commit1, Commit2}

\* a well-formed hash that names no object of the repository
UnknownCommit == "ffffffffffffffffffffffffffffffffffffffff"

\* a branch, which git resolves to the commit it points at
Branch == "main"

Resolve(ref) == IF ref = Branch THEN Commit2 ELSE ref

\* cmd.extend(log_options) under `if log_options:` (None and [] are falsy)
Extended(cmd, log_options) ==
    IF log_options # None /\ log_options[1] # <<>>
    THEN cmd \o log_options[1]
    ELSE cmd

GitLogCmd(log_options) ==
    Extended(<<A("git"), A("log"), A("-1"), A("--format=%H")>>, log_options)

GitCheckoutCmd(commit, log_options) ==
    Extended(<<A("git"), A("checkout"), A(commit)>>, log_options)

\* `git log -1 --format=%H` run in cwd while HEAD is h
GitLog(cwd, h) ==
    IF cwd = Some(RepoPath) THEN Exited(0, <<h, NL>>, <<>>)
    ELSE Exited(128, <<>>, <<"fatal">>)

\* what `git checkout commit` may do in cwd: fail outside a repository or on
\* a ref it cannot resolve, and otherwise switch, or fail on local changes
GitCheckout(cwd, commit) ==
    IF cwd # Some(RepoPath) THEN {Exited(128, <<>>, <<"fatal">>)}
    ELSE IF Resolve(commit) \notin Commits THEN {Exited(1, <<>>, <<"error">>)}
    ELSE {Exited(0, <<>>, <<>>), Exited(1, <<>>, <<"error">>)}

\* run_command(...).decode("UTF-8"): the effect of run_command with its
\* output decoded, which fails on bytes that are not UTF-8
Decoded(eff) ==
    IF eff.result.kind = "raise" THEN eff
    ELSE IF ~decode_ok(eff.result.value)
    THEN [eff EXCEPT !.result = Raise("UnicodeDecodeError")]
    ELSE eff

query_current_git_commit_hash(path, log_options, proc) ==
    LET d == Decoded(run_command(GitLogCmd(log_options), Some(path), proc))
    IN  IF d.result.kind = "raise" THEN d
        ELSE [d EXCEPT !.result = Return(strip(d.result.value))]

\* a plausible slip: the confirmation query runs whatever the checkout did
checkout_git_commit_always_query(path, commit, log_options, proc1, proc2) ==
    LET cmd == GitCheckoutCmd(commit, log_options)
        q == query_current_git_commit_hash(path, None, proc2)
    IN  [q EXCEPT !.spawned = <<Spawn(cmd, Some(path))>> \o q.spawned]

\* checkout_git_commit: proc1 is what the checkout does, proc2 what the
\* confirmation query does
checkout_git_commit(path, commit, log_options, proc1, proc2) ==
    LET cmd == GitCheckoutCmd(commit, log_options)
        r == check_output(cmd, Some(path), proc1)
    IN  IF r.kind = "raise"
        THEN [result |-> r, spawned |-> <<Spawn(cmd, Some(path))>>, errlog |-> <<>>]
        ELSE LET q == query_current_git_commit_hash(path, None, proc2)
             IN  [q EXCEPT !.spawned = <<Spawn(cmd, Some(path))>> \o q.spawned]

(* ------------------------------ rpm ----------------------------------- *)

AUTORELEASE_MACRO == "autorelease(e:s:hp)"

AUTORELEASE_SENTINEL == "__AUTORELEASE_SENTINEL__"

\* Path(path).name: the last component of a path given by its components
PathName(path) == IF path = <<>> THEN <<>> ELSE <<path[Len(path)]>>

\* `if not name: name = path.name`: None and "" are both falsy
EffectiveName(path, name) ==
    IF name = None \/ name[1] = <<>> THEN PathName(path) ELSE name[1]

RpmVersionCmd(name, with_epoch) ==
    << A("rpm"),
       A("--define"), A("_invalid_encoding_terminates_build 0"),
       A("--define"), <<AUTORELEASE_MACRO, Space, "1%{?dist}">>,
       A("--define"), A("autochangelog %nil"),
       A("--qf"),
       (IF with_epoch THEN <<"%|epoch?{%{epoch}:}:{}|">> ELSE <<>>)
           \o <<"%{version}", "\\n">>,
       A("--specfile"), name \o <<".spec">> >>

\* a plausible slip: the failure of the query reaches the caller
get_rpm_current_version_propagating(path, name, with_epoch, files, proc) ==
    LET n == EffectiveName(path, name) IN
    IF n \notin files
    THEN [result |-> Return(None), spawned |-> <<>>, errlog |-> <<>>]
    ELSE LET d == Decoded(run_command(RpmVersionCmd(n, with_epoch),
                                      Some(path), proc))
         IN  IF d.result.kind = "raise" THEN d
             ELSE [d EXCEPT !.result =
                      Return(Some(strip(first_line(d.result.value))))]

\* get_rpm_current_version: files are the names n for which n.spec exists
\* in the directory, proc is what rpm does
get_rpm_current_version(path, name, with_epoch, files, proc) ==
    LET n == EffectiveName(path, name) IN
    IF n \notin files
    THEN [result |-> Return(None), spawned |-> <<>>, errlog |-> <<>>]
    ELSE LET d == Decoded(run_command(RpmVersionCmd(n, with_epoch),
                                      Some(path), proc))
         IN  IF d.result.kind = "raise"
             THEN [d EXCEPT !.result = Return(None)]
             ELSE [d EXCEPT !.result =
                      Return(Some(strip(first_line(d.result.value))))]

AutoreleaseCmd(filename) ==
    << A("rpm"),
       A("--define"), <<AUTORELEASE_MACRO, Space, AUTORELEASE_SENTINEL>>,
       A("-q"), A("--queryformat"), <<"%{release}", NL>>,
       A("--specfile"), A(filename) >>

\* x in y for texts: y holds x as a contiguous part
Contains(y, x) ==
    \E i \in 1..(Len(y) - Len(x) + 1) : SubSeq(y, i, i + Len(x) - 1) = x

\* a plausible slip: the sentinel is looked for inside the release
check_autorelease_presence_substring(filename, proc) ==
    IF proc.kind = "oserror"
    THEN [result |-> Raise("FileNotFoundError"),
          spawned |-> <<Spawn(AutoreleaseCmd(filename), None)>>,
          errlog |-> <<>>]
    ELSE LET release == first_line(decode_replace(proc.stdout))
         IN  [result |-> Return(Contains(release, <<AUTORELEASE_SENTINEL>>)),
              spawned |-> <<Spawn(AutoreleaseCmd(filename), None)>>,
              errlog |-> <<>>]

\* check_autorelease_presence: Popen + communicate, the exit status unread
check_autorelease_presence(filename, proc) ==
    IF proc.kind = "oserror"
    THEN [result |-> Raise("FileNotFoundError"),
          spawned |-> <<Spawn(AutoreleaseCmd(filename), None)>>,
          errlog |-> <<>>]
    ELSE LET release == first_line(decode_replace(proc.stdout))
         IN  [result |-> Return(release = <<AUTORELEASE_SENTINEL>>),
              spawned |-> <<Spawn(AutoreleaseCmd(filename), None)>>,
              errlog |-> <<>>]

(* ------------------------ autochangelog scan -------------------------- *)

\* the macro name, one piece
Autochangelog == "autochangelog"

\* number of leading whitespace pieces: what a greedy \s* consumes
RECURSIVE SpaceRun(_)
SpaceRun(s) ==
    IF s # <<>> /\ IsWhitespace(Head(s)) THEN 1 + SpaceRun(Tail(s)) ELSE 0

\* s continues with the pieces of lit from position p on
LitAt(s, p, lit) ==
    /\ p + Len(lit) - 1 <= Len(s)
    /\ SubSeq(s, p, p + Len(lit) - 1) = lit

\* autochangelog_re.match(line) is not None.  re.match anchors the pattern
\* at the start of the line only; nothing has to follow the final \s*.
autochangelog_re_match(line) ==
    LET p == SpaceRun(line) + 1 IN
    /\ LitAt(line, p, <<"%">>)
    /\ \/ LitAt(line, p + 1, <<Autochangelog>>)
       \/ LitAt(line, p + 1, <<"{", "?", Autochangelog, "}">>)
       \/ LitAt(line, p + 1, <<"{", Autochangelog, "}">>)

\* iter(specfile): the lines of the text, each with its newline
RECURSIVE FileLines(_)
FileLines(text) ==
    IF text = <<>> THEN <<>>
    ELSE LET l == first_line(text) IN
         IF Len(l) < Len(text)
         THEN <<l \o <<NL>>>> \o FileLines(SubSeq(text, Len(l) + 2, Len(text)))
         ELSE <<l>>

\* check_autochangelog_presence on a file that is missing (None) or holds
\* the given bytes
check_autochangelog_presence(file) ==
    IF file = None THEN Raise("FileNotFoundError")
    ELSE IF ~decode_ok(file[1]) THEN Raise("UnicodeDecodeError")
    ELSE LET lines == FileLines(file[1]) IN
         Return(\E i \in 1..Len(lines) :
                    autochangelog_re_match(rstrip_newline(lines[i])))

(* ------------------------------ combinator ---------------------------- *)

\* specfile_uses_rpmautospec: both checks run first, whatever the flags
specfile_uses_rpmautospec(specfile, check_autorelease, check_autochangelog, file, proc) ==
    LET a == check_autorelease_presence(specfile, proc)
        c == check_autochangelog_presence(file)
    IN  IF a.result.kind = "raise" THEN a
        ELSE IF c.kind = "raise" THEN [a EXCEPT !.result = c]
        ELSE IF check_autorelease /\ check_autochangelog
        THEN [a EXCEPT !.result = Return(a.result.value \/ c.value)]
        ELSE IF check_autorelease THEN a
        ELSE IF check_autochangelog THEN [a EXCEPT !.result = c]
        ELSE [a EXCEPT !.result =
                [kind |-> "raise", exc |-> "ValueError",
                 arg |-> "One of check_autorelease and check_autochangelog must be set"]]

(* ------------------------------ koji ---------------------------------- *)

\* koji.ClientSession(url): a new object, told apart by its number
ClientSession(url, n) == [id |-> n, url |-> url]

\* a plausible slip: the session is returned but the global is not rebound
koji_init_unbound(koji_url_or_session, client, n) ==
    IF koji_url_or_session.isstr
    THEN [kojiclient |-> client, nsessions |-> n + 1,
          result |-> Return(Some(ClientSession(koji_url_or_session.url, n + 1)))]
    ELSE [kojiclient |-> client, nsessions |-> n,
          result |-> Return(Some(koji_url_or_session.session))]

\* koji_init while _kojiclient is client and n sessions exist
koji_init(koji_url_or_session, client, n) ==
    IF koji_url_or_session.isstr
    THEN [kojiclient |-> Some(ClientSession(koji_url_or_session.url, n + 1)),
          nsessions |-> n + 1,
          result |-> Return(Some(ClientSession(koji_url_or_session.url, n + 1)))]
    ELSE [kojiclient |-> Some(koji_url_or_session.session),
          nsessions |-> n,
          result |-> Return(Some(koji_url_or_session.session))]

(* ====================================================================== *)
(* The specifications.  In each, a caller makes calls; a call is one       *)
(* action, the whole function.  In all but SpecKoji the caller then takes  *)
(* the outcome (Continue) before it calls again.                           *)
(* ====================================================================== *)

NoResult == [kind |-> "none"]

InitBase ==
    /\ op = ""
    /\ result = NoResult
    /\ spawned = <<>>
    /\ errlog = <<>>
    /\ kojiclient = None
    /\ nsessions = 0
    /\ head = Commit1
    /\ pc = "idle"

\* the call `name` with arguments a had the effect eff
Apply(name, a, eff) ==
    /\ op' = name
    /\ args' = a
    /\ result' = eff.result
    /\ spawned' = eff.spawned
    /\ errlog' = eff.errlog
    /\ pc' = "done"

Continue ==
    /\ pc = "done"
    /\ pc' = "idle"
    /\ op' = ""
    /\ args' = <<>>
    /\ result' = NoResult
    /\ spawned' = <<>>
    /\ errlog' = <<>>
    /\ UNCHANGED <<kojiclient, nsessions, head>>

(* ------------------ Spec: the operations that run commands ------------ *)

\* what a child process may write
Outputs == SeqsUpTo({"1", Space, NL, BadByte}, MaxOutLen)

\* what rpm may write when asked for the release
ReleaseOutputs == SeqsUpTo({AUTORELEASE_SENTINEL, "1", NL, BadByte}, MaxOutLen)

ProcOutcomes ==
    {NotStarted}
    \cup {Exited(0, o, <<>>) : o \in Outputs}
    \cup {Exited(1, o, e) : o \in Outputs, e \in {<<>>, <<"!">>}}

RpmReleaseOutcomes ==
    {NotStarted} \cup {Exited(c, o, <<>>) : c \in {0, 1}, o \in ReleaseOutputs}

\* what rpm may do on a spec file: it fails on a missing one
RpmOn(file) ==
    IF file = None THEN {NotStarted, Exited(1, <<>>, <<"!">>)}
    ELSE RpmReleaseOutcomes

Commands == {<<A("true")>>, <<A("rpm"), A("--version")>>}

Paths == {RepoPath, PlainPath}

LogOptions == {None, Some(<<>>), Some(<<A("-q")>>)}

Refs == Commits \cup {UnknownCommit, Branch}

PkgPath == <<"pkgs", "foo">>

PkgNames == {None, Some(<<>>), Some(<<"foo">>), Some(<<"bar">>)}

DirListings == {{}, {<<"foo">>}, {<<"bar">>}, {<<"foo">>, <<"bar">>}}

\* the spec files the combinator is run on: missing, empty, with the macro
\* on a line of its own, without it, not UTF-8
SmallFiles ==
    {None, Some(<<>>), Some(<<"%", Autochangelog, NL>>), Some(<<"x", NL>>),
     Some(<<"%", Autochangelog, NL, BadByte>>)}

Booleans == {TRUE, FALSE}

RunCommand ==
    /\ pc = "idle"
    /\ \E command \in Commands, cwd \in {None, Some(RepoPath)},
          proc \in ProcOutcomes :
          Apply("run_command",
                [command |-> command, cwd |-> cwd, procs |-> <<proc>>],
                run_command(command, cwd, proc))
    /\ UNCHANGED <<kojiclient, nsessions, head>>

QueryCurrentGitCommitHash ==
    /\ pc = "idle"
    /\ \E path \in Paths, log_options \in LogOptions :
          LET proc == GitLog(Some(path), head) IN
          Apply("query_current_git_commit_hash",
                [path |-> path, log_options |-> log_options,
                 procs |-> <<proc>>],
                query_current_git_commit_hash(path, log_options, proc))
    /\ UNCHANGED <<kojiclient, nsessions, head>>

CheckoutGitCommit ==
    /\ pc = "idle"
    /\ \E path \in Paths, commit \in Refs, log_options \in LogOptions :
       \E proc1 \in GitCheckout(Some(path), commit) :
          LET h == IF proc1.code = 0 THEN Resolve(commit) ELSE head
              proc2 == GitLog(Some(path), h)
              eff == checkout_git_commit(path, commit, log_options,
                                         proc1, proc2)
          IN  /\ Apply("checkout_git_commit",
                       [path |-> path, commit |-> commit,
                        log_options |-> log_options,
                        procs |-> SubSeq(<<proc1, proc2>>, 1, Len(eff.spawned))],
                       eff)
              /\ head' = h
    /\ UNCHANGED <<kojiclient, nsessions>>

GetRpmCurrentVersion ==
    /\ pc = "idle"
    /\ \E name \in PkgNames, with_epoch \in Booleans, files \in DirListings,
          proc \in ProcOutcomes :
          LET eff == get_rpm_current_version(PkgPath, name, with_epoch,
                                             files, proc)
          IN  Apply("get_rpm_current_version",
                    [path |-> PkgPath, name |-> name,
                     with_epoch |-> with_epoch, files |-> files,
                     procs |-> SubSeq(<<proc>>, 1, Len(eff.spawned))],
                    eff)
    /\ UNCHANGED <<kojiclient, nsessions, head>>

CheckAutoreleasePresence ==
    /\ pc = "idle"
    /\ \E proc \in RpmReleaseOutcomes :
          Apply("check_autorelease_presence",
                [filename |-> "foo.spec", procs |-> <<proc>>],
                check_autorelease_presence("foo.spec", proc))
    /\ UNCHANGED <<kojiclient, nsessions, head>>

SpecfileUsesRpmautospec ==
    /\ pc = "idle"
    /\ \E check_autorelease \in Booleans, check_autochangelog \in Booleans,
          file \in SmallFiles :
       \E proc \in RpmOn(file) :
          Apply("specfile_uses_rpmautospec",
                [filename |-> "foo.spec",
                 check_autorelease |-> check_autorelease,
                 check_autochangelog |-> check_autochangelog,
                 file |-> file, procs |-> <<proc>>],
                specfile_uses_rpmautospec("foo.spec", check_autorelease,
                                          check_autochangelog, file, proc))
    /\ UNCHANGED <<kojiclient, nsessions, head>>

Init == InitBase /\ args = <<>>

Next ==
    \/ RunCommand
    \/ QueryCurrentGitCommitHash
    \/ CheckoutGitCommit
    \/ GetRpmCurrentVersion
    \/ CheckAutoreleasePresence
    \/ SpecfileUsesRpmautospec
    \/ Continue

Spec == Init /\ [][Next]_vars

(* ------------------ SpecEvr: parse_evr -------------------------------- *)

EvrChars == {"0", "1", "a", ":", "-", NL}

\* "epoch:version-release" put together again from the parsed fields
Rebuild(evr) ==
    str(evr.epoch) \o <<":">> \o evr.version
        \o (IF evr.release = None THEN <<>> ELSE <<"-">> \o evr.release[1])

InitEvr ==
    /\ InitBase
    /\ \E s \in SeqsUpTo(EvrChars, MaxEvrLen) : args = [evr_str |-> s]

ParseEvr ==
    /\ pc = "idle"
    /\ op' = "parse_evr"
    /\ result' = parse_evr(args.evr_str)
    /\ pc' = "parsed"
    /\ UNCHANGED <<args, spawned, errlog, kojiclient, nsessions, head>>

\* the caller rebuilds the string from the fields and parses it again
ReparseEvr ==
    /\ pc = "parsed"
    /\ result.kind = "return"
    /\ args' = [evr_str |-> Rebuild(result.value), first |-> result.value,
                original |-> args.evr_str]
    /\ result' = parse_evr(Rebuild(result.value))
    /\ pc' = "reparsed"
    /\ UNCHANGED <<op, spawned, errlog, kojiclient, nsessions, head>>

NextEvr == ParseEvr \/ ReparseEvr

SpecEvr == InitEvr /\ [][NextEvr]_vars

(* ------------------ SpecFile: check_autochangelog_presence ------------ *)

FilePieces == {Space, "%", "{", "?", "}", Autochangelog, "x", NL}

InitFile ==
    /\ InitBase
    /\ \E file \in {None} \cup {Some(t) : t \in SeqsUpTo(FilePieces, MaxFileLen)} :
          args = [filename |-> "foo.spec", file |-> file]

CheckAutochangelogPresence ==
    /\ pc = "idle"
    /\ op' = "check_autochangelog_presence"
    /\ result' = check_autochangelog_presence(args.file)
    /\ pc' = "done"
    /\ UNCHANGED <<args, spawned, errlog, kojiclient, nsessions, head>>

NextFile == CheckAutochangelogPresence

SpecFile == InitFile /\ [][NextFile]_vars

(* ------------------ SpecKoji: koji_init ------------------------------- *)

Urls == {"https://koji.example/kojihub", "https://koji2.example/kojihub"}

\* sessions the caller built itself; they are none of the module's
ForeignSessions == {[id |-> i, url |-> u] : i \in {-1, -2}, u \in Urls}

KojiCall(arg) ==
    LET eff == koji_init(arg, kojiclient, nsessions) IN
    /\ op' = "koji_init"
    /\ args' = [arg |-> arg, before |-> kojiclient, nbefore |-> nsessions]
    /\ result' = eff.result
    /\ kojiclient' = eff.kojiclient
    /\ nsessions' = eff.nsessions
    /\ UNCHANGED <<spawned, errlog, head, pc>>

KojiInitUrl ==
    /\ nsessions < MaxSessions
    /\ \E url \in Urls : KojiCall([isstr |-> TRUE, url |-> url])

\* the caller passes a session of its own, or the one it got back earlier
KojiInitSession ==
    \E s \in ForeignSessions \cup {kojiclient[i] : i \in 1..Len(kojiclient)} :
        KojiCall([isstr |-> FALSE, session |-> s])

InitKoji == InitBase /\ args = <<>>

NextKoji == KojiInitUrl \/ KojiInitSession

SpecKoji == InitKoji /\ [][NextKoji]_vars

(* ====================================================================== *)
(* The claims                                                              *)
(* ====================================================================== *)

AllDigits(s, from, to) == \A k \in from..to : IsDigit(s[k])

AllVerChars(s, from, to) == \A k \in from..to : s[k] \notin {"-", ":"}

AllWhitespace(s, from, to) == \A k \in from..to : IsWhitespace(s[k])

\* s read as [epoch ":"] version ["-" release] with an epoch of i digits
\* (i = 0: no epoch part) and a version of j characters
EvrStart(i) == IF i = 0 THEN 1 ELSE i + 2

EvrShape(s, i, j) ==
    LET start == EvrStart(i)
        after == start + j
    IN  /\ \/ i = 0
           \/ i < Len(s) /\ AllDigits(s, 1, i) /\ s[i + 1] = ":"
        /\ after - 1 <= Len(s)
        /\ AllVerChars(s, start, after - 1)
        /\ \/ after = Len(s) + 1
           \/ after < Len(s) /\ s[after] = "-"
                /\ AllVerChars(s, after + 1, Len(s))

EvrShapes(s) ==
    {ij \in (0..Len(s)) \X (1..Len(s)) : EvrShape(s, ij[1], ij[2])}

EvrFields(s, i, j) ==
    LET start == EvrStart(i)
        after == start + j
    IN  [epoch |-> IF i = 0 THEN 0 ELSE int(SubSeq(s, 1, i)),
         version |-> SubSeq(s, start, after - 1),
         release |-> IF after = Len(s) + 1 THEN None
                     ELSE Some(SubSeq(s, after + 1, Len(s)))]

\* C5: parse_evr(s) returns (epoch as integer, 0 if absent; version; release
\* or None) exactly when s has the shape [digits ":"] version ["-" release]
\* with version and release non-empty and free of '-' and ':', and raises
\* ValueError(s) for every other s; the string rebuilt from the returned
\* fields parses to the same three fields.
C5_ParseEvr ==
    /\ pc = "parsed" =>
          LET s == args.evr_str IN
          IF EvrShapes(s) # {}
          THEN \A ij \in EvrShapes(s) :
                  result = Return(EvrFields(s, ij[1], ij[2]))
          ELSE result = [kind |-> "raise", exc |-> "ValueError", arg |-> s]
    /\ pc = "reparsed" => result = Return(args.first)

\* a string with a release and no epoch was parsed, rebuilt as "0:v-r" and
\* parsed again
C5_Witness ==
    /\ pc = "reparsed"
    /\ args.first.epoch = 0
    /\ args.first.release # None
    /\ args.original # args.evr_str

Done(name) == pc = "done" /\ op = name

\* the child process exited with a non-zero status
ProcFailed(p) == p.kind = "exit" /\ p.code # 0

CommandOps ==
    {"run_command", "query_current_git_commit_hash", "checkout_git_commit",
     "check_autorelease_presence", "get_rpm_current_version"}

\* C1: in every operation that runs an external command, a command that
\* exits non-zero is logged at error severity (command line, exit code,
\* stdout, stderr) and then propagated as the process failure; only
\* get_rpm_current_version returns None instead of propagating.
C1_FailureLoggedAndPropagated ==
    \A name \in CommandOps :
        Done(name) =>
            \A i \in 1..Len(spawned) :
                ProcFailed(args.procs[i]) =>
                    LET e == CalledProcessError(spawned[i].cmd, args.procs[i])
                    IN  /\ errlog = ErrorRecords(spawned[i].cmd, e)
                        /\ IF name = "get_rpm_current_version"
                           THEN result = Return(None)
                           ELSE result = e

\* a line is, as a whole, optional whitespace, the macro in one of its
\* three forms, optional whitespace
MacroForms ==
    { <<"%", Autochangelog>>,
      <<"%", "{", Autochangelog, "}">>,
      <<"%", "{", "?", Autochangelog, "}">> }

WholeLineMatch(line) ==
    \E a \in 1..Len(line), b \in 1..Len(line) :
        /\ a <= b
        /\ SubSeq(line, a, b) \in MacroForms
        /\ AllWhitespace(line, 1, a - 1)
        /\ AllWhitespace(line, b + 1, Len(line))

\* a physical line without its one trailing newline
Chomp(l) ==
    IF l # <<>> /\ l[Len(l)] = NL THEN SubSeq(l, 1, Len(l) - 1) ELSE l

\* C2: check_autochangelog_presence returns true if and only if some
\* physical line of the file, its trailing newline removed, matches as a
\* whole: whitespace, the macro (bare, {braced} or {?braced}), whitespace.
C2_WholeLineMatch ==
    (Done("check_autochangelog_presence") /\ args.file # None) =>
        LET lines == FileLines(args.file[1]) IN
        result = Return(\E i \in 1..Len(lines) : WholeLineMatch(Chomp(lines[i])))

ConfigurationError ==
    [kind |-> "raise", exc |-> "ValueError",
     arg |-> "One of check_autorelease and check_autochangelog must be set"]

\* C3: specfile_uses_rpmautospec with both flags false raises the
\* configuration error, whatever the spec file is and whatever the two
\* presence checks would do on it.
C3_NeitherFlagRaisesConfigurationError ==
    (/\ Done("specfile_uses_rpmautospec")
     /\ ~args.check_autorelease
     /\ ~args.check_autochangelog) => result = ConfigurationError

\* C4: with exactly one flag set specfile_uses_rpmautospec has the outcome
\* (value or failure) of that check alone, whatever the other check does;
\* with both set it returns the OR of the two results.
C4_OnlyTheRequestedCheckCounts ==
    Done("specfile_uses_rpmautospec") =>
        LET a == check_autorelease_presence(args.filename, args.procs[1]).result
            c == check_autochangelog_presence(args.file)
        IN  /\ (args.check_autorelease /\ ~args.check_autochangelog)
                  => result = a
            /\ (args.check_autochangelog /\ ~args.check_autorelease)
                  => result = c
            /\ (/\ args.check_autorelease /\ args.check_autochangelog
                /\ a.kind = "return" /\ c.kind = "return")
                  => result = Return(a.value \/ c.value)

\* C6: get_rpm_current_version never raises: without <name>.spec it returns
\* None and spawns nothing; if rpm cannot be run, exits non-zero or writes
\* what is not UTF-8 it returns None; otherwise it returns the first line
\* of rpm's output, stripped.
C6_VersionQueryIsBestEffort ==
    Done("get_rpm_current_version") =>
        LET n == IF args.name \in {None, Some(<<>>)}
                 THEN <<args.path[Len(args.path)]>>
                 ELSE args.name[1]
        IN  /\ result.kind = "return"
            /\ n \notin args.files => (result.value = None /\ spawned = <<>>)
            /\ n \in args.files =>
                  /\ Len(spawned) = 1
                  /\ spawned[1].cmd[Len(spawned[1].cmd)] = n \o <<".spec">>
                  /\ LET p == args.procs[1] IN
                     IF p.kind = "oserror" \/ p.code # 0
                           \/ (\E k \in 1..Len(p.stdout) : p.stdout[k] = BadByte)
                     THEN result.value = None
                     ELSE result.value = Some(strip(first_line(p.stdout)))

\* the spec file is there and rpm exits non-zero: None comes back
C6_Witness ==
    /\ Done("get_rpm_current_version")
    /\ Len(spawned) = 1
    /\ ProcFailed(args.procs[1])
    /\ args.procs[1].stdout # <<>>
    /\ result = Return(None)

\* C7: checkout_git_commit runs `git checkout <commit>` first; if that
\* fails the failure is propagated and the confirmation query never runs;
\* if it succeeds the function returns the stripped output of
\* `git log -1 --format=%H` run in the same directory, which for a full
\* hash of a commit is that hash.
C7_CheckoutThenConfirm ==
    Done("checkout_git_commit") =>
        /\ Len(spawned) >= 1
        /\ SubSeq(spawned[1].cmd, 1, 3)
              = <<A("git"), A("checkout"), A(args.commit)>>
        /\ spawned[1].cwd = Some(args.path)
        /\ ProcFailed(args.procs[1]) =>
              /\ Len(spawned) = 1
              /\ result = CalledProcessError(spawned[1].cmd, args.procs[1])
        /\ ~ProcFailed(args.procs[1]) =>
              /\ Len(spawned) = 2
              /\ spawned[2] = Spawn(<<A("git"), A("log"), A("-1"),
                                      A("--format=%H")>>, spawned[1].cwd)
              /\ result = Return(strip(args.procs[2].stdout))
              /\ args.commit \in Commits => result = Return(<<args.commit>>)

\* the checkout of another commit succeeded and its hash came back
C7_Witness ==
    /\ Done("checkout_git_commit")
    /\ args.commit = Commit2
    /\ Len(spawned) = 2
    /\ head = Commit2
    /\ result = Return(<<Commit2>>)

\* C9: check_autorelease_presence returns true only when the release that
\* rpm rendered (the first line it wrote) is exactly the sentinel; any
\* other output gives false, and a non-zero exit of rpm raises nothing.
C9_ExactSentinel ==
    (Done("check_autorelease_presence") /\ args.procs[1].kind = "exit") =>
        LET out == args.procs[1].stdout IN
        /\ result.kind = "return"
        /\ result.value <=>
              /\ Len(out) >= 1
              /\ out[1] = AUTORELEASE_SENTINEL
              /\ Len(out) >= 2 => out[2] = NL

\* rpm failed after writing the sentinel inside a longer release
C9_Witness ==
    /\ Done("check_autorelease_presence")
    /\ ProcFailed(args.procs[1])
    /\ args.procs[1].stdout = <<"1", AUTORELEASE_SENTINEL>>
    /\ result = Return(FALSE)

\* C10: run_command spawns its command once and never again; on exit
\* status zero it returns stdout as captured; on a non-zero status it
\* raises the process failure with the exit code and both streams.
C10_SingleAttempt ==
    Done("run_command") =>
        LET p == args.procs[1] IN
        /\ spawned = <<Spawn(args.command, args.cwd)>>
        /\ (p.kind = "exit" /\ p.code = 0) => result = Return(p.stdout)
        /\ ProcFailed(p) =>
              /\ result.kind = "raise"
              /\ result.exc = "CalledProcessError"
              /\ result.returncode = p.code
              /\ result.stdout = p.stdout
              /\ result.stderr = p.stderr

\* a command wrote to both streams and exited non-zero
C10_Witness ==
    /\ Done("run_command")
    /\ ProcFailed(args.procs[1])
    /\ args.procs[1].stdout = <<"1", NL>>
    /\ args.procs[1].stderr = <<"!">>
    /\ result.kind = "raise"
    /\ Len(spawned) = 1

\* C8: before the first koji_init the session handle is absent; after a
\* call it is the session that call returned: for a string a session newly
\* constructed for that endpoint, for a session object that very object,
\* with no session constructed.
C8_LastWriterWins ==
    /\ op = "" => kojiclient = None
    /\ op = "koji_init" =>
          /\ result = Return(kojiclient)
          /\ kojiclient # None
          /\ IF args.arg.isstr
             THEN /\ kojiclient[1].url = args.arg.url
                  /\ kojiclient[1].id = args.nbefore + 1
                  /\ nsessions = args.nbefore + 1
                  /\ kojiclient # args.before
                  /\ kojiclient[1] \notin ForeignSessions
             ELSE /\ kojiclient[1] = args.arg.session
                  /\ nsessions = args.nbefore

\* a session object was adopted in place of a session constructed earlier
C8_Witness ==
    /\ op = "koji_init"
    /\ ~args.arg.isstr
    /\ args.before # None
    /\ args.before[1].id = 2
    /\ kojiclient[1] \in ForeignSessions

=============================================================================
